---- MODULE Spec2Model ----
(***************************************************************************)
(* Reverse-mode automatic differentiation over scalar computation graphs   *)
(* (engine.rs) and the Neuron / Layer / MLP modules built on it (nn.rs).   *)
(*                                                                         *)
(* A Value is a pointer (Rc) to an Inner record; the model keeps every     *)
(* Inner in an append-only arena `heap`, and a Value is its index there,   *)
(* so pointer identity is index identity.  f32 numbers are modelled as     *)
(* exact rationals <<numerator, denominator>> in lowest terms; rounding,   *)
(* infinities and NaN are outside the model (operations that would divide  *)
(* by zero are not drawn as inputs).                                       *)
(***************************************************************************)
EXTENDS Integers, Sequences, FiniteSets, TLC

VARIABLES
    heap,    \* arena of Inner records: data, grad, prev, op, rhs
    mlp,     \* the module under test: [sz, layers]
    pc,      \* "idle" | "backward" (inside Value::backward) | "returned"
    self,    \* the terminal of the running / last backward call (0: none)
    topo,    \* the order list build_topo produced
    pos,     \* position of the reverse iteration over topo
    grad0,   \* gradients at the moment backward or zero_grad was called
    log,     \* closures run in this pass: [node, grad read by the closure]
    passes,  \* number of backward calls so far
    last,    \* the last gradient-affecting call: new|backward|zero_grad|set_grad
    prior,   \* the value of `last` when the current backward was called
    call,    \* the last graph-building call: [op, a, f, base]
    sets,    \* number of set_grad calls so far
    ret      \* what the last Module::parameters call returned

vars == <<heap, mlp, pc, self, topo, pos, grad0, log, passes, last, prior, call,
          sets, ret>>

----------------------------------------------------------------------------
(* Bounds of the model *)

MaxNodes == 4
MaxOpsNodes == 5
MaxPassNodes == 4
MaxPasses == 2
MaxSets == 1
NumSeeds == 3
MaxNin == 2
MaxLayers == 2
MaxWidth == 2
MaxDirty == 1

----------------------------------------------------------------------------
(* f32 values as exact rationals *)

Abs(x) == IF x < 0 THEN -x ELSE x

RECURSIVE Gcd(_, _)
Gcd(a, b) == IF b = 0 THEN a ELSE Gcd(b, a % b)

Norm(n, d) ==
    LET s == IF d < 0 THEN -1 ELSE 1
        g == Gcd(Abs(n), Abs(d))
    IN  <<(s * n) \div g, (s * d) \div g>>

F(n) == <<n, 1>>

FAdd(x, y) == Norm(x[1] * y[2] + y[1] * x[2], x[2] * y[2])

FMul(x, y) == Norm(x[1] * y[1], x[2] * y[2])

\* 1.0 / x, for x # 0
FRecip(x) == Norm(x[2], x[1])

\* x.powf(k) for an integral exponent k (x # 0 when k < 0)
RECURSIVE Powf(_, _)
Powf(x, k) ==
    IF k = 0 THEN F(1)
    ELSE IF k < 0 THEN FRecip(Powf(x, -k))
    ELSE FMul(x, Powf(x, k - 1))

FGt0(x) == x[1] > 0

FGe0(x) == x[1] >= 0

\* (b as u8 as f32)
BoolF(b) == IF b THEN F(1) ELSE F(0)

----------------------------------------------------------------------------
(* Inputs drawn by the actions *)

\* floats a caller passes to Value::new and to the node-float operators
Floats == {F(-1), F(2)}

\* exponents passed to pow
Exps == {-1, 2}

\* gradients a caller passes to set_grad
GradInputs == {F(0), F(3)}

\* values the random generator returns for gen_range(-1.0..=1.0)
Weights == <<F(-1), F(0), F(1)>>

----------------------------------------------------------------------------
(* Value construction *)

\* Value::new
new(h, d) ==
    Append(h, [data |-> d, grad |-> F(0), prev |-> <<>>, op |-> "None", rhs |-> 0])

\* Value::_new, with the exponent the pow closure captures
_new(h, d, prev_, op_, rhs_) ==
    Append(h, [data |-> d, grad |-> F(0), prev |-> prev_, op |-> op_, rhs |-> rhs_])

\* impl Add<Self> for &Value
add(h, a, b) == _new(h, FAdd(h[a].data, h[b].data), <<a, b>>, "Add", 0)

\* impl Mul<Self> for &Value
mul(h, a, b) == _new(h, FMul(h[a].data, h[b].data), <<a, b>>, "Mul", 0)

\* Value::pow
pow(h, a, k) == _new(h, Powf(h[a].data, k), <<a>>, "Pow", k)

\* Value::relu
relu(h, a) ==
    IF FGe0(h[a].data)
    THEN _new(h, h[a].data, <<a>>, "ReLU", 0)
    ELSE _new(h, F(0), <<a>>, "ReLU", 0)

----------------------------------------------------------------------------
(* Operator forms built from the primitives *)

\* impl Add<f32> for Value
add_f32(h, a, f) ==
    LET h1 == new(h, f) IN add(h1, a, Len(h1))

\* impl Mul<f32> for &Value, impl Mul<f32> for Value
mul_f32(h, a, f) ==
    LET h1 == new(h, f) IN mul(h1, a, Len(h1))

\* impl Neg for &Value
neg(h, a) == mul_f32(h, a, F(-1))

\* impl Sub<Self> for &Value, impl Sub<Self> for Value
sub(h, a, b) ==
    LET h1 == neg(h, b) IN add(h1, a, Len(h1))

\* impl Div<Self> for &Value
div(h, a, b) ==
    LET h1 == pow(h, b, -1) IN mul(h1, a, Len(h1))

\* impl Div<f32> for &Value
div_f32ViaPow(h, a, f) ==
    LET h1 == new(h, f) IN div(h1, a, Len(h1))

div_f32(h, a, f) == mul_f32(h, a, FRecip(f))

\* impl Div<Value> for f32
f32_div(h, f, a) ==
    LET h1 == pow(h, a, -1) IN mul_f32(h1, Len(h1), f)

----------------------------------------------------------------------------
(* The backward closures *)

\* grad.set(grad.get() + c)
AccGradOverwrite(h, n, c) == [h EXCEPT ![n].grad = c]

AccGrad(h, n, c) == [h EXCEPT ![n].grad = FAdd(@, c)]

\* the closure of an Add node v
BackAdd(h, v) ==
    LET h1 == AccGrad(h, h[v].prev[1], h[v].grad)
    IN  AccGrad(h1, h[v].prev[2], h1[v].grad)

\* the closure of a Mul node v
BackMul(h, v) ==
    LET a == h[v].prev[1]
        b == h[v].prev[2]
        h1 == AccGrad(h, a, FMul(h[b].data, h[v].grad))
    IN  AccGrad(h1, b, FMul(h1[a].data, h1[v].grad))

\* the closure of a Pow node v
BackPow(h, v) ==
    LET a == h[v].prev[1]
        k == h[v].rhs
    IN  AccGrad(h, a, FMul(FMul(F(k), Powf(h[a].data, k - 1)), h[v].grad))

\* the closure of a ReLU node v
BackReLUAtZero(h, v) ==
    AccGrad(h, h[v].prev[1], FMul(BoolF(FGe0(h[v].data)), h[v].grad))

BackReLU(h, v) ==
    AccGrad(h, h[v].prev[1], FMul(BoolF(FGt0(h[v].data)), h[v].grad))

\* v.0.borrow_mut().backward.as_ref()()
Back(h, v) ==
    CASE h[v].op = "None" -> h
      [] h[v].op = "Add"  -> BackAdd(h, v)
      [] h[v].op = "Mul"  -> BackMul(h, v)
      [] h[v].op = "Pow"  -> BackPow(h, v)
      [] h[v].op = "ReLU" -> BackReLU(h, v)

----------------------------------------------------------------------------
(* build_topo *)

\* visited.contains(&v): Hash and PartialEq of Value compare the pointer
ContainsByData(h, visited, v) == \E u \in visited : h[u].data = h[v].data

Contains(h, visited, v) == v \in visited

RECURSIVE build_topo(_, _, _), build_children(_, _, _, _)
build_topo(h, v, st) ==
    IF Contains(h, st.visited, v) THEN st
    ELSE LET st1 == [st EXCEPT !.visited = @ \cup {v}]
             st2 == build_children(h, h[v].prev, 1, st1)
         IN  [st2 EXCEPT !.topo = Append(@, v)]
build_children(h, ps, i, st) ==
    IF i > Len(ps) THEN st
    ELSE build_children(h, ps, i + 1, build_topo(h, ps[i], st))

\* self.0.borrow_mut().grad.set(1.0)
SeedResetAll(h, t) ==
    [n \in DOMAIN h |-> [h[n] EXCEPT !.grad = IF n = t THEN F(1) ELSE F(0)]]

Seed(h, t) == [h EXCEPT ![t].grad = F(1)]

\* topo.iter().rev(): the node visited when p nodes remain
NextRuleForward(order, p) == order[Len(order) - p + 1]

NextRule(order, p) == order[p]

\* for v in topo.iter().rev() { (v.backward)() }, with i nodes remaining
RECURSIVE RunRules(_, _, _)
RunRules(h, order, i) ==
    IF i = 0 THEN h ELSE RunRules(Back(h, NextRule(order, i)), order, i - 1)

\* one whole call of Value::backward on terminal t
backward(h, t) ==
    LET order == build_topo(h, t, [visited |-> {}, topo |-> <<>>]).topo
    IN  RunRules(Seed(h, t), order, Len(order))

----------------------------------------------------------------------------
(* nn.rs: Neuron, Layer, MLP and the Module trait *)

\* rng.gen_range(-1.0..=1.0): the j-th draw of the generator seeded with seed
Rng(seed, j) == Weights[((seed + j) % Len(Weights)) + 1]

\* (0..nin).map(|_| Value::new(rng.gen_range(-1.0..=1.0))).collect()
NewWeights(st, nin, seed) ==
    LET base == Len(st.heap)
        fresh == [j \in 1..nin |-> new(<<>>, Rng(seed, st.draws + j - 1))[1]]
    IN  [heap |-> st.heap \o fresh, draws |-> st.draws + nin,
         out |-> [j \in 1..nin |-> base + j]]

\* Neuron::new
NeuronNew(st, nin, nonlin, seed) ==
    LET s1 == NewWeights([heap |-> st.heap, draws |-> st.draws, out |-> <<>>],
                         nin, seed)
        h2 == new(s1.heap, F(0))
    IN  [heap |-> h2, draws |-> s1.draws,
         out |-> [w |-> s1.out, b |-> Len(h2), nonlin |-> nonlin]]

\* (0..nout).map(|_| Neuron::new(nin, nonlin)).collect()
RECURSIVE NewNeurons(_, _, _, _, _)
NewNeurons(st, nin, nout, nonlin, seed) ==
    IF nout = 0 THEN st
    ELSE LET s1 == NeuronNew(st, nin, nonlin, seed)
         IN  NewNeurons([heap |-> s1.heap, draws |-> s1.draws,
                         out |-> Append(st.out, s1.out)],
                        nin, nout - 1, nonlin, seed)

\* Layer::new
LayerNew(st, nin, nout, nonlin, seed) ==
    LET s1 == NewNeurons([heap |-> st.heap, draws |-> st.draws, out |-> <<>>],
                         nin, nout, nonlin, seed)
    IN  [heap |-> s1.heap, draws |-> s1.draws, out |-> [neurons |-> s1.out]]

\* (0..nouts.len()).map(|i| Layer::new(sz[i], sz[i + 1], i != nouts.len() - 1))
RECURSIVE NewLayers(_, _, _, _)
NewLayers(st, sz, i, seed) ==
    IF i > Len(sz) - 1 THEN st
    ELSE LET s1 == LayerNew(st, sz[i], sz[i + 1], i # Len(sz) - 1, seed)
         IN  NewLayers([heap |-> s1.heap, draws |-> s1.draws,
                        out |-> Append(st.out, s1.out)], sz, i + 1, seed)

\* MLP::new(nin, nouts), with sz = <<nin>> \o nouts
MLPNew(sz, seed) ==
    LET s1 == NewLayers([heap |-> <<>>, draws |-> 0, out |-> <<>>], sz, 1, seed)
    IN  [heap |-> s1.heap, mlp |-> [sz |-> sz, layers |-> s1.out]]

\* impl Module for Neuron: parameters
NeuronParametersNoBias(n) == n.w

NeuronParameters(n) == Append(n.w, n.b)

\* impl Module for Layer: parameters
RECURSIVE FlatNeurons(_, _)
FlatNeurons(ns, i) ==
    IF i > Len(ns) THEN <<>>
    ELSE NeuronParameters(ns[i]) \o FlatNeurons(ns, i + 1)

LayerParameters(l) == FlatNeurons(l.neurons, 1)

\* impl Module for MLP: parameters
RECURSIVE FlatLayers(_, _)
FlatLayers(ls, i) ==
    IF i > Len(ls) THEN <<>>
    ELSE LayerParameters(ls[i]) \o FlatLayers(ls, i + 1)

MLPParameters(m) == FlatLayers(m.layers, 1)

\* Value::set_grad
set_grad(h, v, g) == [h EXCEPT ![v].grad = g]

\* Module::zero_grad: for v in self.parameters() { v.set_grad(0.0) }
RECURSIVE ZeroEach(_, _, _)
ZeroEach(h, ps, i) ==
    IF i > Len(ps) THEN h ELSE ZeroEach(set_grad(h, ps[i], F(0)), ps, i + 1)

zero_gradFirstOnly(h, m) ==
    IF MLPParameters(m) = <<>> THEN h ELSE set_grad(h, MLPParameters(m)[1], F(0))

zero_grad(h, m) == ZeroEach(h, MLPParameters(m), 1)

----------------------------------------------------------------------------
(* State machine *)

Ids == 1..Len(heap)

NoCall == [op |-> "none", a |-> 0, f |-> F(0), base |-> 0]

NoRet == [called |-> FALSE, v |-> <<>>]

\* history of the last backward call, forgotten when the caller moves on
Forget ==
    /\ pc' = "idle"
    /\ self' = 0
    /\ topo' = <<>>
    /\ pos' = 0
    /\ grad0' = <<>>
    /\ log' = <<>>
    /\ prior' = "none"

\* a graph-building call: the arena grows, nothing else changes
Built(h, c) ==
    /\ pc # "backward"
    /\ heap' = h
    /\ call' = c
    /\ Forget
    /\ UNCHANGED <<mlp, passes, last, sets, ret>>

Called(name, a, f) == [op |-> name, a |-> a, f |-> f, base |-> Len(heap)]

New(f) == Built(new(heap, f), Called("new", 0, f))

AddVV(a, b) == Built(add(heap, a, b), Called("add", a, F(0)))

MulVV(a, b) == Built(mul(heap, a, b), Called("mul", a, F(0)))

Pow(a, k) ==
    /\ k < 0 => heap[a].data # F(0)
    /\ Built(pow(heap, a, k), Called("pow", a, F(k)))

Relu(a) == Built(relu(heap, a), Called("relu", a, F(0)))

AddVF(a, f) == Built(add_f32(heap, a, f), Called("add_f32", a, f))

MulVF(a, f) == Built(mul_f32(heap, a, f), Called("mul_f32", a, f))

Neg(a) == Built(neg(heap, a), Called("neg", a, F(0)))

SubVV(a, b) == Built(sub(heap, a, b), Called("sub", a, F(0)))

DivVV(a, b) ==
    /\ heap[b].data # F(0)
    /\ Built(div(heap, a, b), Called("div", a, F(0)))

DivVF(a, f) == Built(div_f32(heap, a, f), Called("div_f32", a, f))

DivFV(f, a) ==
    /\ heap[a].data # F(0)
    /\ Built(f32_div(heap, f, a), Called("f32_div", a, f))

\* Value::backward up to the seeding of the terminal
Backward(t) ==
    /\ pc # "backward"
    /\ topo' = build_topo(heap, t, [visited |-> {}, topo |-> <<>>]).topo
    /\ heap' = Seed(heap, t)
    /\ pos' = Len(topo')
    /\ self' = t
    /\ grad0' = [n \in Ids |-> heap[n].grad]
    /\ log' = <<>>
    /\ passes' = passes + 1
    /\ prior' = last
    /\ last' = "backward"
    /\ pc' = "backward"
    /\ UNCHANGED <<mlp, call, sets, ret>>

\* one iteration of `for v in topo.iter().rev()`
BackwardStep ==
    /\ pc = "backward"
    /\ pos >= 1
    /\ LET v == NextRule(topo, pos)
       IN  /\ log' = Append(log, [node |-> v, grad |-> heap[v].grad])
           /\ heap' = Back(heap, v)
    /\ pos' = pos - 1
    /\ pc' = IF pos = 1 THEN "returned" ELSE "backward"
    /\ UNCHANGED <<mlp, self, topo, grad0, passes, last, prior, call, sets, ret>>

SetGrad(v, g) ==
    /\ pc # "backward"
    /\ heap' = set_grad(heap, v, g)
    /\ last' = "set_grad"
    /\ sets' = IF sets < MaxSets THEN sets + 1 ELSE sets
    /\ Forget
    /\ UNCHANGED <<mlp, passes, call, ret>>

ZeroGrad ==
    /\ pc # "backward"
    /\ heap' = zero_grad(heap, mlp)
    /\ last' = "zero_grad"
    /\ grad0' = [n \in Ids |-> heap[n].grad]
    /\ pc' = "idle"
    /\ self' = 0
    /\ topo' = <<>>
    /\ pos' = 0
    /\ log' = <<>>
    /\ prior' = "none"
    /\ UNCHANGED <<mlp, passes, call, sets, ret>>

Parameters ==
    /\ pc # "backward"
    /\ ret' = [called |-> TRUE, v |-> MLPParameters(mlp)]
    /\ UNCHANGED <<heap, mlp, pc, self, topo, pos, grad0, log, passes, last,
                   prior, call, sets>>

InitWith(sz, seed) ==
    /\ heap = MLPNew(sz, seed).heap
    /\ mlp = MLPNew(sz, seed).mlp
    /\ pc = "idle"
    /\ self = 0
    /\ topo = <<>>
    /\ pos = 0
    /\ grad0 = <<>>
    /\ log = <<>>
    /\ passes = 0
    /\ last = "new"
    /\ prior = "none"
    /\ call = NoCall
    /\ sets = 0
    /\ ret = NoRet

Seeds == 0..(NumSeeds - 1)

(* The engine, driven by a caller that owns MLP::new(1, &[1]). *)

Room(k) == Len(heap) + k <= MaxNodes

Init == \E seed \in Seeds : InitWith(<<1, 1>>, seed)

Next ==
    \/ \E f \in Floats : Room(1) /\ New(f)
    \/ \E a \in Ids, b \in Ids : Room(1) /\ AddVV(a, b)
    \/ \E a \in Ids, b \in Ids : Room(1) /\ MulVV(a, b)
    \/ \E a \in Ids, k \in Exps : Room(1) /\ Pow(a, k)
    \/ \E a \in Ids : Room(1) /\ Relu(a)
    \/ \E t \in Ids : passes < MaxPasses /\ Backward(t)
    \/ BackwardStep
    \/ \E v \in Ids, g \in GradInputs : sets < MaxSets /\ SetGrad(v, g)
    \/ ZeroGrad

Spec == Init /\ [][Next]_vars

(* One backward pass over a graph built from fresh nodes. *)

Fresh(k) == passes = 0 /\ Len(heap) + k <= MaxPassNodes

NextPass ==
    \/ \E f \in Floats : Fresh(1) /\ New(f)
    \/ \E a \in Ids, b \in Ids : Fresh(1) /\ AddVV(a, b)
    \/ \E a \in Ids, b \in Ids : Fresh(1) /\ MulVV(a, b)
    \/ \E a \in Ids, k \in Exps : Fresh(1) /\ Pow(a, k)
    \/ \E a \in Ids : Fresh(1) /\ Relu(a)
    \/ \E t \in Ids : Fresh(0) /\ Backward(t)
    \/ BackwardStep

SpecPass == Init /\ [][NextPass]_vars

(* Graph construction alone, with every operator form. *)

RoomOps(k) == Len(heap) + k <= MaxOpsNodes

NextOps ==
    \/ \E f \in Floats : RoomOps(1) /\ New(f)
    \/ \E a \in Ids, b \in Ids : RoomOps(1) /\ AddVV(a, b)
    \/ \E a \in Ids, b \in Ids : RoomOps(1) /\ MulVV(a, b)
    \/ \E a \in Ids, f \in Floats : RoomOps(2) /\ AddVF(a, f)
    \/ \E a \in Ids, f \in Floats : RoomOps(2) /\ MulVF(a, f)
    \/ \E a \in Ids : RoomOps(2) /\ Neg(a)
    \/ \E a \in Ids, b \in Ids : RoomOps(3) /\ SubVV(a, b)
    \/ \E a \in Ids, b \in Ids : RoomOps(2) /\ DivVV(a, b)
    \/ \E a \in Ids, f \in Floats : RoomOps(2) /\ DivVF(a, f)
    \/ \E a \in Ids, f \in Floats : RoomOps(3) /\ DivFV(f, a)

SpecOps == Init /\ [][NextOps]_vars

(* The Module trait on networks of several shapes. *)

\* the network of test_MLP
TestArch == <<8, 4, 2>>

Archs ==
    {TestArch} \cup
    UNION {{<<nin>> \o nouts : nin \in 1..MaxNin, nouts \in [1..l -> 1..MaxWidth]} :
           l \in 1..MaxLayers}

Dirty == Cardinality({n \in Ids : heap[n].grad # F(0)})

InitNN == \E sz \in Archs, seed \in Seeds : InitWith(sz, seed)

NextNN ==
    \/ \E v \in Ids, g \in GradInputs :
           (Dirty < MaxDirty \/ heap[v].grad # F(0)) /\ SetGrad(v, g)
    \/ ZeroGrad
    \/ Parameters

SpecNN == InitNN /\ [][NextNN]_vars

----------------------------------------------------------------------------
(* Vocabulary of the properties *)

Params == {MLPParameters(mlp)[i] : i \in 1..Len(MLPParameters(mlp))}

\* nodes reachable from t through parent links
RECURSIVE Reach(_, _)
Reach(h, t) == {t} \cup UNION {Reach(h, h[t].prev[i]) : i \in 1..Len(h[t].prev)}

\* parent links into n: <<c, i>> when n is the i-th parent of c
LinksInto(h, S, n) ==
    {<<c, i>> \in S \X {1, 2} : i <= Len(h[c].prev) /\ h[c].prev[i] = n}

\* the partial derivative of node c with respect to its i-th operand
Local(h, c, i) ==
    LET u == h[h[c].prev[i]].data
    IN  CASE h[c].op = "Add"  -> F(1)
          [] h[c].op = "Mul"  -> h[h[c].prev[3 - i]].data
          [] h[c].op = "Pow"  -> FMul(F(h[c].rhs), Powf(u, h[c].rhs - 1))
          [] h[c].op = "ReLU" -> IF u[1] > 0 THEN F(1) ELSE F(0)

\* the sum of the second components of a set of pairs
RECURSIVE SumPairs(_)
SumPairs(S) ==
    IF S = {} THEN F(0)
    ELSE LET x == CHOOSE y \in S : TRUE IN FAdd(x[2], SumPairs(S \ {x}))

\* sum over the parent-link paths from t to n of the product of the local
\* partial derivatives along the path (the paths into n extend the paths
\* into each of its consumers by one link)
RECURSIVE PathSum(_, _, _)
PathSum(h, t, n) ==
    IF n = t THEN F(1)
    ELSE SumPairs({<<e, FMul(Local(h, e[1], e[2]), PathSum(h, t, e[1]))>> :
                   e \in LinksInto(h, Reach(h, t), n)})

Consumers(h, S, n) == {c \in S : \E i \in 1..Len(h[c].prev) : h[c].prev[i] = n}

ZeroBefore == \A n \in DOMAIN grad0 : grad0[n] = F(0)

FMax0(x) == IF x[1] > 0 THEN x ELSE F(0)

\* a freshly constructed graph of the same structure and data
FreshGraph(h) == [n \in DOMAIN h |-> [h[n] EXCEPT !.grad = F(0)]]

\* what the closures run in this pass added to n: for each closure, the local
\* partial derivative times the gradient the closure read
Contributions(n) ==
    SumPairs({<<<<i, j>>, FMul(Local(heap, log[i].node, j), log[i].grad)>> :
              <<i, j>> \in {x \in (1..Len(log)) \X {1, 2} :
                            /\ x[2] <= Len(heap[log[x[1]].node].prev)
                            /\ heap[log[x[1]].node].prev[x[2]] = n}})

----------------------------------------------------------------------------
(* C1 *)

\* C1: after backward(terminal) on a graph whose gradients were all 0, the
\* gradient of every node reachable from the terminal is the sum over the
\* parent-link paths from the terminal to it of the product of the local
\* partial derivatives; a node with two links into it gets both contributions.
C1_ChainRule ==
    (pc = "returned" /\ ZeroBefore) =>
        \A n \in Reach(heap, self) : heap[n].grad = PathSum(heap, self, n)

\* a pass from zero gradients over a node that feeds two consumers, and over
\* a node that is both operands of one operator
C1_Witness ==
    /\ pc = "returned"
    /\ ZeroBefore
    /\ \E n \in Reach(heap, self) :
           /\ Cardinality(Consumers(heap, Reach(heap, self), n)) >= 2
           /\ heap[n].grad # F(0)
    /\ \E c \in Reach(heap, self) :
           /\ Len(heap[c].prev) = 2
           /\ heap[c].prev[1] = heap[c].prev[2]
           /\ heap[heap[c].prev[1]].grad # F(0)

----------------------------------------------------------------------------
(* C2 *)

\* C2: within a backward pass, when the closure of a node N has run, the
\* closure of every reachable consumer of N ran before it, and the gradient
\* of N is still the one N's closure read.
C2_ConsumersFirst ==
    (pc \in {"backward", "returned"}) =>
        \A i \in 1..Len(log) :
            /\ \A c \in Consumers(heap, Reach(heap, self), log[i].node) :
                   \E j \in 1..(i - 1) : log[j].node = c
            /\ heap[log[i].node].grad = log[i].grad

\* a finished pass over a node with two reachable consumers and over an
\* operator node whose closure read a gradient its consumer had added
C2_Witness ==
    /\ pc = "returned"
    /\ \E i \in 1..Len(log) :
           /\ Cardinality(Consumers(heap, Reach(heap, self), log[i].node)) >= 2
           /\ log[i].grad # F(0)
    /\ \E i \in 1..Len(log) :
           /\ heap[log[i].node].op # "None"
           /\ log[i].node # self
           /\ log[i].grad # grad0[log[i].node]

----------------------------------------------------------------------------
(* C3 *)

Runs(n) == Cardinality({i \in 1..Len(log) : log[i].node = n})

\* C3: one backward call runs the closure of each node reachable from the
\* terminal exactly once and of no other node; nodes are told apart by
\* identity, so two reachable nodes with equal data both run.
C3_ExactlyOnce ==
    (pc = "returned") =>
        \A n \in Ids : Runs(n) = IF n \in Reach(heap, self) THEN 1 ELSE 0

\* a finished pass over a node reached along two paths and over two distinct
\* nodes of equal data that end with different gradients
C3_Witness ==
    /\ pc = "returned"
    /\ \E n \in Reach(heap, self) :
           Cardinality(LinksInto(heap, Reach(heap, self), n)) >= 2
    /\ \E a \in Reach(heap, self), b \in Reach(heap, self) :
           /\ a # b
           /\ heap[a].data = heap[b].data
           /\ heap[a].grad # heap[b].grad
           /\ Runs(a) = 1
           /\ Runs(b) = 1

----------------------------------------------------------------------------
(* C4 *)

\* the pass that just returned was called right after zero_grad, with
\* earlier passes before it
AfterZeroGrad == pc = "returned" /\ prior = "zero_grad" /\ passes >= 2

SameAsFresh ==
    \A p \in Params : heap[p].grad = backward(FreshGraph(heap), self)[p].grad

\* C4 as stated: zero_grad() then backward() leaves every parameter with the
\* gradient backward() gives on a fresh graph of the same structure and data
\* (read on the runs in which no caller ever used set_grad, so that only
\* earlier passes can have left gradients behind).
C4_AsStated == (AfterZeroGrad /\ sets = 0) => SameAsFresh

\* the operator nodes below the terminal had gradient 0 when backward was called
InnerZeroBefore ==
    \A n \in Reach(heap, self) :
        (n # self /\ heap[n].op # "None") => grad0[n] = F(0)

\* C4 amended: zero_grad() then backward() leaves every parameter with the
\* gradient of a fresh graph, provided every operator node below the terminal
\* has gradient 0 at the call (as when the expression was built after the
\* earlier passes).
C4_FreshAfterZeroGrad == (AfterZeroGrad /\ InnerZeroBefore) => SameAsFresh

\* a pass after zero_grad that gives a parameter below the terminal a
\* gradient while a node elsewhere still carries one from an earlier pass
C4_Witness ==
    /\ AfterZeroGrad
    /\ InnerZeroBefore
    /\ \E p \in Params \cap Reach(heap, self) : p # self /\ heap[p].grad # F(0)
    /\ \E n \in Ids : grad0[n] # F(0)

----------------------------------------------------------------------------
(* C5 *)

\* a closure added its contributions to n in this step
AddedByRule(n) ==
    /\ pc = "backward"
    /\ LET v == topo[pos]
       IN  heap'[n].grad =
               FAdd(heap[n].grad,
                    SumPairs({<<i, FMul(Local(heap, v, i), heap[v].grad)>> :
                              i \in {j \in 1..Len(heap[v].prev) :
                                         heap[v].prev[j] = n}}))

\* backward was called on n in this step
SeededAsTerminal(n) ==
    pc # "backward" /\ pc' = "backward" /\ self' = n /\ heap'[n].grad = F(1)

\* a call outside a pass set the gradient of n to 0
ResetToZero(n) == pc # "backward" /\ pc' # "backward" /\ heap'[n].grad = F(0)

\* set_grad was called and set the gradient of n to the value it was given
SetByCaller(n) ==
    pc # "backward" /\ last' = "set_grad" /\ heap'[n].grad \in GradInputs

Changed(n) == heap'[n].grad # heap[n].grad

\* C5 as stated: a gradient changes only by a closure adding to it, by a
\* reset to 0, or by the seeding of the terminal with 1.0.
C5_AsStated ==
    [][\A n \in Ids :
           Changed(n) => AddedByRule(n) \/ ResetToZero(n) \/ SeededAsTerminal(n)]_vars

\* C5 amended: a gradient changes only by a closure adding to it, by
\* set_grad setting it to the value the caller passes (0 when zero_grad
\* calls it), or by the seeding of the terminal with 1.0.
C5_GradientWrites ==
    [][\A n \in Ids :
           Changed(n) =>
               \/ AddedByRule(n)
               \/ ResetToZero(n)
               \/ SetByCaller(n)
               \/ SeededAsTerminal(n)]_vars

\* a gradient that a closure added to after set_grad had set it to 3
C5_Witness ==
    /\ pc = "returned"
    /\ prior = "set_grad"
    /\ \E n \in Reach(heap, self) :
           /\ n # self
           /\ grad0[n] = F(3)
           /\ heap[n].grad # grad0[n]

----------------------------------------------------------------------------
(* C6 *)

RECURSIVE SumTo(_, _)
\* sz[i] * sz[i + 1] + sz[i + 1], summed over the layers i..
SumTo(sz, i) ==
    IF i >= Len(sz) THEN 0 ELSE sz[i] * sz[i + 1] + sz[i + 1] + SumTo(sz, i + 1)

\* the weight and bias nodes the network owns
NeuronNodes(n) == {n.b} \cup {n.w[j] : j \in 1..Len(n.w)}

LayerNodes(l) == UNION {NeuronNodes(l.neurons[k]) : k \in 1..Len(l.neurons)}

Owned == UNION {LayerNodes(mlp.layers[l]) : l \in 1..Len(mlp.layers)}

\* C6: parameters() returns sum of sz[i]*sz[i+1] + sz[i+1] nodes (46 for
\* MLP::new(8, &[4, 2])), every owned weight and bias once, always in the
\* order of construction, and after zero_grad() each of them has gradient 0.
C6_Parameters ==
    /\ ret.called =>
           /\ Len(ret.v) = SumTo(mlp.sz, 1)
           /\ mlp.sz = TestArch => Len(ret.v) = 46
           /\ {ret.v[i] : i \in 1..Len(ret.v)} = Owned
           /\ \A i \in 1..Len(ret.v), j \in 1..Len(ret.v) :
                  ret.v[i] = ret.v[j] => i = j
           /\ ret.v = [i \in 1..Len(heap) |-> i]
    /\ last = "zero_grad" => \A n \in Owned : heap[n].grad = F(0)

\* parameters() and then zero_grad() on the network of test_MLP, one of whose
\* gradients was 3 when zero_grad was called
C6_Witness ==
    /\ mlp.sz = TestArch
    /\ ret.called
    /\ Len(ret.v) = 46
    /\ last = "zero_grad"
    /\ pc = "idle"
    /\ \E n \in Owned : grad0[n] = F(3)
    /\ \A n \in Ids : heap[n].grad = F(0)

----------------------------------------------------------------------------
(* C7 *)

\* the pass that just returned was called with nothing but graph building
\* since the pass before it
SecondPass == pc = "returned" /\ prior = "backward"

\* C7 as stated: after a second pass with no zero_grad in between, every
\* parameter that the terminal reaches and that kept a gradient from the
\* first pass has that gradient plus what the closures of the second pass
\* added.
C7_AsStated ==
    SecondPass =>
        \A p \in Params \cap Reach(heap, self) :
            grad0[p] # F(0) => heap[p].grad = FAdd(grad0[p], Contributions(p))

\* C7 amended: the same for every parameter other than the terminal of the
\* second pass, whose gradient is overwritten with 1.0.
C7_Accumulates ==
    SecondPass =>
        /\ \A p \in Params \ {self} :
               heap[p].grad = FAdd(grad0[p], Contributions(p))
        /\ heap[self].grad = F(1)

\* a second pass that adds to the gradient a parameter kept from the first
C7_Witness ==
    /\ SecondPass
    /\ \E p \in Params \ {self} :
           /\ grad0[p] # F(0)
           /\ Contributions(p) # F(0)
           /\ heap[p].grad # grad0[p]

----------------------------------------------------------------------------
(* C8 *)

\* C8: relu(u) appends a node with data max(u.data, 0), and its closure adds
\* out.grad to u.grad when u.data > 0 and 0 otherwise (also at u.data = 0).
C8_Relu ==
    [][/\ (Len(heap') > Len(heap) /\ heap'[Len(heap')].op = "ReLU") =>
              /\ Len(heap') = Len(heap) + 1
              /\ SubSeq(heap', 1, Len(heap)) = heap
              /\ heap'[Len(heap')].data =
                     FMax0(heap[heap'[Len(heap')].prev[1]].data)
       /\ (pc = "backward" /\ heap[topo[pos]].op = "ReLU") =>
              LET v == topo[pos]
                  u == heap[v].prev[1]
              IN  heap'[u].grad =
                      FAdd(heap[u].grad,
                           IF heap[u].data[1] > 0 THEN heap[v].grad ELSE F(0))]_vars

\* a pass ran the closure of relu(u) with u.data = 0 and a gradient to pass on
C8_Witness ==
    /\ pc = "returned"
    /\ \E i \in 1..Len(log) :
           /\ heap[log[i].node].op = "ReLU"
           /\ log[i].grad # F(0)
           /\ heap[heap[log[i].node].prev[1]].data = F(0)
           /\ heap[heap[log[i].node].prev[1]].grad = F(0)

----------------------------------------------------------------------------
(* C9 *)

\* the arena before the last call
Before == SubSeq(heap, 1, call.base)

\* the float of the last call wrapped as a fresh leaf
Wrapped == new(Before, call.f)

\* C9 as stated: node + f, node * f, node / f and f / node build the graph of
\* the node-node operator applied to the node and a fresh leaf holding f.
C9_AsStated ==
    /\ call.op = "add_f32" => heap = add(Wrapped, call.a, Len(Wrapped))
    /\ call.op = "mul_f32" => heap = mul(Wrapped, call.a, Len(Wrapped))
    /\ call.op = "div_f32" => heap = div(Wrapped, call.a, Len(Wrapped))
    /\ call.op = "f32_div" => heap = div(Wrapped, Len(Wrapped), call.a)

Leaf(d) == [data |-> d, grad |-> F(0), prev |-> <<>>, op |-> "None", rhs |-> 0]

Operator(d, ps, o, k) == [data |-> d, grad |-> F(0), prev |-> ps, op |-> o, rhs |-> k]

\* C9 amended: node + f and node * f build the node-node operator on the node
\* and a fresh leaf holding f; node / f builds multiply(node, leaf(1/f)), with
\* no power node; f / node builds multiply(power(node, -1), leaf(f)).
C9_NodeFloatForms ==
    LET a == call.a
        n == call.base
        x == Before[a].data
    IN  /\ call.op = "add_f32" =>
               heap = Before \o <<Leaf(call.f),
                                  Operator(FAdd(x, call.f), <<a, n + 1>>, "Add", 0)>>
        /\ call.op = "mul_f32" =>
               heap = Before \o <<Leaf(call.f),
                                  Operator(FMul(x, call.f), <<a, n + 1>>, "Mul", 0)>>
        /\ call.op = "div_f32" =>
               heap = Before \o <<Leaf(FRecip(call.f)),
                                  Operator(FMul(x, FRecip(call.f)), <<a, n + 1>>,
                                           "Mul", 0)>>
        /\ call.op = "f32_div" =>
               heap = Before \o <<Operator(FRecip(x), <<a>>, "Pow", -1),
                                  Leaf(call.f),
                                  Operator(FMul(FRecip(x), call.f),
                                           <<n + 1, n + 2>>, "Mul", 0)>>

\* node / 2.0 was just called on an operator node
C9_Witness ==
    /\ call.op = "div_f32"
    /\ call.f = F(2)
    /\ heap[call.a].op # "None"
    /\ heap[Len(heap)].op = "Mul"
    /\ heap[Len(heap) - 1].data = <<1, 2>>

----------------------------------------------------------------------------
(* C10 *)

\* C10: a step of backward(terminal) changes no node's data, parents,
\* operation or exponent, adds no node, and changes no gradient of a node
\* that is not reachable from the terminal.
C10_Frame ==
    [][(pc = "backward" \/ pc' = "backward") =>
           /\ Len(heap') = Len(heap)
           /\ \A n \in Ids :
                  /\ heap'[n].data = heap[n].data
                  /\ heap'[n].prev = heap[n].prev
                  /\ heap'[n].op = heap[n].op
                  /\ heap'[n].rhs = heap[n].rhs
                  /\ n \notin Reach(heap, self') => heap'[n].grad = heap[n].grad]_vars

\* a finished pass that changed gradients below the terminal and left a
\* gradient outside its reach as it was
C10_Witness ==
    /\ pc = "returned"
    /\ \E n \in Ids \ Reach(heap, self) :
           heap[n].grad # F(0) /\ heap[n].grad = grad0[n]
    /\ \E m \in Reach(heap, self) : m # self /\ heap[m].grad # grad0[m]

====
